---- MODULE Spec2Model ----
(***************************************************************************)
(* Model of the saaspodcast sources: the AudioProvider playback container, *)
(* the Convex user gateway (getUserById, createUser, updateUser,           *)
(* deleteUser, getTopUserByPodcastCount) and the useDebounce hook.         *)
(***************************************************************************)
EXTENDS Integers, Sequences, FiniteSets, TLC

VARIABLES
    audio,          \* AudioProvider: useState<AudioProps | undefined>
    pathname,       \* AudioProvider: usePathname()
    events,         \* history of setAudio calls and route changes
    consumer,       \* outcome of the latest useAudio() call of a component
    users,          \* Convex table "users": sequence of documents in creation order
    podcasts,       \* Convex table "podcasts": sequence of documents in creation order
    calls,          \* gateway handler invocations in flight, by slot
    nextId,         \* next fresh document _id
    started,        \* number of handler invocations started so far
    ranking,        \* last result of getTopUserByPodcastCount
    value,          \* useDebounce: the input value of the latest render
    debouncedValue, \* useDebounce: useState<T>(value)
    timers,         \* pending setTimeout callbacks
    timeout,        \* handle of the timer scheduled by the latest effect run
    mounted,        \* whether the component using useDebounce is mounted
    rapid,          \* history: the latest pair of inputs v1, v2 with v2 inside v1's delay
    unchangedFor,   \* history: ticks since the input last changed, up to the delay
    seconds,        \* formatTime: the argument
    formatted       \* formatTime: the returned string, as a sequence of characters

audioVars == <<audio, pathname, events, consumer>>
storeVars == <<users, podcasts, calls, nextId, started, ranking>>
debounceVars == <<value, debouncedValue, timers, timeout, mounted, rapid, unchangedFor>>
formatVars == <<seconds, formatted>>
vars == <<audio, pathname, events, consumer, users, podcasts, calls, nextId, started, ranking,
          value, debouncedValue, timers, timeout, mounted, rapid, unchangedFor,
          seconds, formatted>>

(***************************************************************************)
(* Bounds                                                                  *)
(***************************************************************************)
MaxEvents == 4
MaxCalls == 2
MaxInvocations == 3
NumPodcasts == 2
MaxRankUsers == 3
NumRankPodcasts == 4
DelayTicks == 2
MaxSeconds == 600

(***************************************************************************)
(* Playback container (AudioProvider)                                      *)
(***************************************************************************)
CreatePodcastPath == "/create-podcast"
Paths == {"/", "/discover", CreatePodcastPath}

\* AudioProps values; undefined is the empty option <<>>, a selection s is <<s>>.
Selections ==
    { [title |-> "t1", audioUrl |-> "a1", author |-> "n1", imageUrl |-> "i1", podcastId |-> "p1"],
      [title |-> "t2", audioUrl |-> "a2", author |-> "n2", imageUrl |-> "i2", podcastId |-> "p2"] }
Undefined == <<>>
AudioArgs == {Undefined} \cup { <<s>> : s \in Selections }

\* useEffect(() => { if (pathname === '/create-podcast') setAudio(undefined) }, [pathname])
\* applied to the selection a after a render in which pathname became p.
PathnameEffectNoReset(a, p) == a
PathnameEffect(a, p) == IF p = CreatePodcastPath THEN Undefined ELSE a

\* Idle values of the state the playback container does not use.
StoreIdle ==
    /\ users = <<>> /\ podcasts = <<>> /\ calls = <<>> /\ nextId = 1 /\ started = 0
    /\ ranking = <<>>
DebounceIdle ==
    /\ value = "v0" /\ debouncedValue = "v0" /\ timers = {} /\ timeout = 0
    /\ mounted = FALSE /\ rapid = <<>> /\ unchangedFor = 0
FormatIdle ==
    /\ seconds = 0 /\ formatted = <<>>
AudioIdle ==
    /\ audio = Undefined /\ pathname = "/" /\ events = <<>> /\ consumer = <<>>

\* Mount: useState(undefined); the effect runs once for the initial pathname.
InitAudio ==
    /\ pathname \in Paths
    /\ audio = PathnameEffect(Undefined, pathname)
    /\ events = <<>>
    /\ consumer = <<>>
    /\ StoreIdle
    /\ DebounceIdle
    /\ FormatIdle

SetAudioEffectEveryRender(a) ==
    /\ Len(events) < MaxEvents
    /\ audio' = PathnameEffect(a, pathname)
    /\ events' = Append(events, [type |-> "set", arg |-> a, to |-> pathname])
    /\ UNCHANGED <<pathname, consumer>>
    /\ UNCHANGED <<storeVars, debounceVars, formatVars>>
\* A consumer calls setAudio(a) obtained from useAudio(): the re-render does
\* not run the effect, whose dependency pathname is unchanged.
SetAudio(a) ==
    /\ Len(events) < MaxEvents
    /\ audio' = a
    /\ events' = Append(events, [type |-> "set", arg |-> a, to |-> pathname])
    /\ UNCHANGED <<pathname, consumer>>
    /\ UNCHANGED <<storeVars, debounceVars, formatVars>>

\* The router changes the path to p: re-render, then the [pathname] effect runs.
RouteChange(p) ==
    /\ Len(events) < MaxEvents
    /\ p # pathname
    /\ pathname' = p
    /\ audio' = PathnameEffect(audio, p)
    /\ events' = Append(events, [type |-> "route", arg |-> Undefined, to |-> p])
    /\ UNCHANGED consumer
    /\ UNCHANGED <<storeVars, debounceVars, formatVars>>

\* createContext<AudioContextType | undefined>(undefined): what useContext
\* returns to a component, enclosed by the provider (its value {audio,
\* setAudio}) or not (the default, undefined).
ContextDefault == <<>>
ProviderValue(a) == <<[audio |-> a, setAudio |-> "setAudio"]>>
UseContext(enclosed, a) == IF enclosed THEN ProviderValue(a) ELSE ContextDefault

\* useAudio: throws when the context is undefined, else returns it.
useAudioReturnsDefault(context) == [threw |-> FALSE, value |-> context]
useAudio(context) ==
    IF context = ContextDefault
    THEN [threw |-> TRUE, value |-> <<>>]
    ELSE [threw |-> FALSE, value |-> context]

\* A component, enclosed by the provider or not, renders and calls useAudio().
UseAudio(enclosed) ==
    /\ consumer' = <<[enclosed |-> enclosed, result |-> useAudio(UseContext(enclosed, audio))]>>
    /\ UNCHANGED <<audio, pathname, events>>
    /\ UNCHANGED <<storeVars, debounceVars, formatVars>>

NextAudio ==
    \/ \E a \in AudioArgs : SetAudio(a)
    \/ \E p \in Paths : RouteChange(p)
    \/ \E enclosed \in BOOLEAN : UseAudio(enclosed)

SpecAudio == InitAudio /\ [][NextAudio]_vars

\* The selection the specification prescribes for a history h: the argument
\* of the most recent setAudio call, or undefined when there was none or a
\* route change to '/create-podcast' came after it.
RECURSIVE Prescribed(_)
Prescribed(h) ==
    IF h = <<>> THEN Undefined
    ELSE LET e == h[Len(h)]
             rest == SubSeq(h, 1, Len(h) - 1)
         IN IF e.type = "set" THEN e.arg
            ELSE IF e.to = CreatePodcastPath THEN Undefined
            ELSE Prescribed(rest)

\* C1: after every finite sequence of setAudio calls and route changes, the
\* selection is the argument of the most recent setAudio call, unless the
\* route changed to '/create-podcast' after that call, and then it is absent.
C1_SelectionFollowsHistory == audio = Prescribed(events)

\* C1 witness: a selection was set, a later route change to '/create-podcast'
\* cleared it, and it is still absent after the route was left again.
C1_Witness ==
    /\ Len(events) >= 3
    /\ \E i \in 1..Len(events), j \in 1..Len(events) :
          /\ i < j
          /\ events[i].type = "set" /\ events[i].arg # Undefined
          /\ events[j].type = "route" /\ events[j].to = CreatePodcastPath
    /\ events[Len(events)].type = "route"
    /\ events[Len(events)].to # CreatePodcastPath
    /\ audio = Undefined

\* C12: useAudio() called by a component that no AudioProvider encloses
\* throws and returns no value; called by an enclosed component it does not
\* throw and returns the provider's current selection with its setAudio.
C12_UseAudioOutsideProviderThrows ==
    [][consumer' # consumer =>
         LET r == consumer'[1]
         IN IF r.enclosed
            THEN /\ ~r.result.threw
                 /\ r.result.value = <<[audio |-> audio, setAudio |-> "setAudio"]>>
            ELSE /\ r.result.threw
                 /\ r.result.value = <<>>]_vars

\* C12 witness: after a selection was set, a component outside the provider
\* called useAudio() and got the error.
C12_Witness ==
    /\ audio # Undefined
    /\ consumer # <<>>
    /\ ~consumer[1].enclosed
    /\ consumer[1].result.threw

\* C14: the selection is cleared only by setAudio(undefined) or by a change
\* of the pathname to '/create-podcast'; a change of the pathname to any
\* other path leaves it as it is; a setAudio call is taken as it is on every
\* route, '/create-podcast' included, and nothing but a later call or route
\* change replaces it.
C14_ResetOnlyOnTransition ==
    [][LET setCall == /\ events' # events
                      /\ events'[Len(events')].type = "set"
           toCreate == pathname' # pathname /\ pathname' = CreatePodcastPath
       IN /\ (audio # Undefined /\ audio' = Undefined)
                => \/ toCreate
                   \/ setCall /\ events'[Len(events')].arg = Undefined
          /\ (pathname' # pathname /\ pathname' # CreatePodcastPath) => audio' = audio
          /\ setCall => audio' = events'[Len(events')].arg /\ pathname' = pathname
          /\ (~setCall /\ pathname' = pathname) => audio' = audio]_vars

\* C14 witness: the route is '/create-podcast', entered by a route change,
\* and a selection set after that is current.
C14_Witness ==
    /\ pathname = CreatePodcastPath
    /\ audio # Undefined
    /\ \E i \in 1..Len(events) :
          events[i].type = "route" /\ events[i].to = CreatePodcastPath

(***************************************************************************)
(* User gateway (Convex handlers) over the tables "users" and "podcasts"   *)
(***************************************************************************)
ClerkIds == {"u1", "u2"}
Slots == 1..MaxCalls

\* Outcomes of a handler invocation.
Running == "running"
Ok == "ok"
AlreadyExists == "User already exists"
NotFound == "User not found"
NotUnique == "unique() returned more than one result"
MissingDocument == "document does not exist"
StoreError == "store rejected the write"

\* ctx.db.query(table).filter(q => q.eq(q.field("clerkId"), id)).collect()
UsersByClerkId(tbl, id) == SelectSeq(tbl, LAMBDA d : d.clerkId = id)
\* ctx.db.query("podcasts").filter(q => q.eq(q.field("authorId"), id)).collect()
PodcastsByAuthor(tbl, id) == SelectSeq(tbl, LAMBDA d : d.authorId = id)
\* .unique(): null (<<>>) for no row, the row for one, throws for more.
UniqueThrows(rows) == Len(rows) > 1
UniqueRow(rows) == IF Len(rows) = 0 THEN <<>> ELSE <<rows[1]>>

HasDoc(tbl, id) == \E i \in 1..Len(tbl) : tbl[i]._id = id
\* ctx.db.insert("users", {clerkId, email, imageUrl, name}) with a fresh _id
DbInsertUserDefaultName(tbl, id, a) ==
    Append(tbl, [_id |-> id, clerkId |-> a.clerkId, email |-> a.email,
                 imageUrl |-> a.imageUrl, name |-> "n1"])
DbInsertUser(tbl, id, a) ==
    Append(tbl, [_id |-> id, clerkId |-> a.clerkId, email |-> a.email,
                 imageUrl |-> a.imageUrl, name |-> a.name])
\* ctx.db.patch(user._id, {imageUrl, email})
DbPatchUser(tbl, id, a) ==
    [i \in 1..Len(tbl) |->
        IF tbl[i]._id = id
        THEN [tbl[i] EXCEPT !.imageUrl = a.imageUrl, !.email = a.email]
        ELSE tbl[i]]
DbPatchPodcastAll(tbl, id, img) ==
    [i \in 1..Len(tbl) |-> [tbl[i] EXCEPT !.authorImageUrl = img]]
\* ctx.db.patch(p._id, {authorImageUrl})
DbPatchPodcast(tbl, id, img) ==
    [i \in 1..Len(tbl) |->
        IF tbl[i]._id = id THEN [tbl[i] EXCEPT !.authorImageUrl = img] ELSE tbl[i]]
\* ctx.db.delete(id)
DbDelete(tbl, id) == SelectSeq(tbl, LAMBDA d : d._id # id)

\* getUserById: the handler's result on a state of the users table.
getUserById(tbl, id) ==
    LET rows == UsersByClerkId(tbl, id)
    IN IF UniqueThrows(rows) THEN [status |-> NotUnique, user |-> <<>>]
       ELSE IF UniqueRow(rows) = <<>> THEN [status |-> NotFound, user |-> <<>>]
       ELSE [status |-> Ok, user |-> UniqueRow(rows)]

\* An invocation slot: the handler, its arguments, where it stands, the
\* document its existence check returned, the podcast patches of the cascade
\* still in flight, and its outcome.  alone records that no other invocation
\* was in flight at any time between its start and now.
IdleCall ==
    [op |-> "none", clerkId |-> "u1", email |-> "e1", imageUrl |-> "i1", name |-> "n1",
     pc |-> "done", user |-> <<>>, pending |-> {}, status |-> Ok, alone |-> TRUE]

InFlight(c) == calls[c].status = Running \/ calls[c].pending # {}
Free(c) == ~InFlight(c)
\* A handler can be invoked in the lowest free slot.
CanStart(c) ==
    /\ started < MaxInvocations
    /\ Free(c)
    /\ \A d \in Slots : d < c => InFlight(d)
OthersQuiet(c) == \A d \in Slots \ {c} : ~InFlight(d)

\* The slots after invocation c starts with record r: every invocation in
\* flight at that moment, and c itself, has then overlapped another one; the
\* outcomes of the invocations that had ended have been delivered.
Started(c, r) ==
    [d \in Slots |->
        IF d = c THEN [r EXCEPT !.alone = OthersQuiet(c)]
        ELSE IF InFlight(d) THEN [calls[d] EXCEPT !.alone = FALSE]
        ELSE IdleCall]

PodcastDocs(authors, views) ==
    [i \in 1..Len(authors) |->
        [_id |-> 100 + i, authorId |-> authors[i], podcastTitle |-> <<"title", i>>,
         views |-> views[i], authorImageUrl |-> "i0"]]

InitStore ==
    /\ users = <<>>
    /\ \E k \in 0..NumPodcasts :
          podcasts = PodcastDocs([i \in 1..NumPodcasts |-> IF i <= k THEN "u1" ELSE "u2"],
                                 [i \in 1..NumPodcasts |-> i])
    /\ calls = [c \in Slots |-> IdleCall]
    /\ nextId = 1
    /\ started = 0
    /\ ranking = <<>>
    /\ AudioIdle
    /\ DebounceIdle
    /\ FormatIdle

\* createUser, lines 212-221: the existence check and its outcome.
CreateCheckOutcome(rows) ==
    IF UniqueThrows(rows) THEN NotUnique
    ELSE IF UniqueRow(rows) # <<>> THEN AlreadyExists
    ELSE "insert"

CreateUser(c, a) ==
    /\ CanStart(c)
    /\ LET o == CreateCheckOutcome(UsersByClerkId(users, a.clerkId))
           r == [IdleCall EXCEPT !.op = "createUser", !.clerkId = a.clerkId,
                    !.email = a.email, !.imageUrl = a.imageUrl, !.name = a.name,
                    !.pc = IF o = "insert" THEN "insert" ELSE "done",
                    !.status = IF o = "insert" THEN Running ELSE o]
       IN calls' = Started(c, r)
    /\ started' = started + 1
    /\ UNCHANGED <<users, podcasts, nextId, ranking>>
    /\ UNCHANGED <<audioVars, debounceVars, formatVars>>

\* createUser, lines 225-230: the insert.
CreateInsert(c) ==
    /\ calls[c].op = "createUser" /\ calls[c].pc = "insert"
    /\ users' = DbInsertUser(users, nextId, calls[c])
    /\ nextId' = nextId + 1
    /\ calls' = [calls EXCEPT ![c].pc = "done", ![c].status = Ok]
    /\ UNCHANGED <<podcasts, ranking>>
    /\ UNCHANGED <<started, audioVars, debounceVars, formatVars>>

\* updateUser / deleteUser: the existence check and its outcome.
LookupOutcomeWrongError(rows, next) ==
    IF UniqueThrows(rows) THEN NotUnique
    ELSE IF UniqueRow(rows) = <<>> THEN AlreadyExists
    ELSE next
LookupOutcome(rows, next) ==
    IF UniqueThrows(rows) THEN NotUnique
    ELSE IF UniqueRow(rows) = <<>> THEN NotFound
    ELSE next

\* updateUser, lines 269-276.
UpdateUser(c, a) ==
    /\ CanStart(c)
    /\ LET rows == UsersByClerkId(users, a.clerkId)
           o == LookupOutcome(rows, "patchUser")
           r == [IdleCall EXCEPT !.op = "updateUser", !.clerkId = a.clerkId,
                    !.email = a.email, !.imageUrl = a.imageUrl,
                    !.pc = IF o = "patchUser" THEN "patchUser" ELSE "done",
                    !.user = IF o = "patchUser" THEN UniqueRow(rows) ELSE <<>>,
                    !.status = IF o = "patchUser" THEN Running ELSE o]
       IN calls' = Started(c, r)
    /\ started' = started + 1
    /\ UNCHANGED <<users, podcasts, nextId, ranking>>
    /\ UNCHANGED <<audioVars, debounceVars, formatVars>>

\* The _ids of the documents the cascade patches: podcast.map(p => patch(p._id, ...))
CascadeTargetsFirstOnly(rows) == IF Len(rows) = 0 THEN {} ELSE {rows[1]._id}
CascadeTargets(rows) == { rows[i]._id : i \in 1..Len(rows) }

\* updateUser, lines 281-306: patch of the user document found by the check
\* (ctx.db.patch throws when the document is gone), then the author's
\* podcasts are collected and one patch per podcast is issued; Promise.all of
\* no promises resolves at once.  The collect follows the patch in the same
\* step: no handler adds or removes a podcast or changes an authorId, so its
\* result is the same wherever other invocations' steps fall.
UpdatePatchUser(c) ==
    /\ calls[c].op = "updateUser" /\ calls[c].pc = "patchUser"
    /\ IF HasDoc(users, calls[c].user[1]._id)
       THEN /\ users' = DbPatchUser(users, calls[c].user[1]._id, calls[c])
            /\ LET ids == CascadeTargets(PodcastsByAuthor(podcasts, calls[c].clerkId))
               IN calls' = [calls EXCEPT ![c].pending = ids,
                                         ![c].pc = IF ids = {} THEN "done" ELSE "cascade",
                                         ![c].status = IF ids = {} THEN Ok ELSE Running]
       ELSE /\ users' = users
            /\ calls' = [calls EXCEPT ![c].pc = "done", ![c].status = MissingDocument]
    /\ UNCHANGED <<podcasts, nextId, ranking>>
    /\ UNCHANGED <<started, audioVars, debounceVars, formatVars>>

\* The invocation record after the patch of podcast p has settled with
\* outcome o: Promise.all resolves when the last patch resolves and rejects
\* with the first rejection; the other patches stay in flight.
PatchSettled(r, p, o) ==
    LET left == r.pending \ {p}
    IN [r EXCEPT !.pending = left,
                 !.pc = IF left = {} THEN "done" ELSE r.pc,
                 !.status = IF r.status # Running THEN r.status
                            ELSE IF o # Ok THEN o
                            ELSE IF left = {} THEN Ok ELSE Running]

\* updateUser, lines 302-304: one patch of the cascade is applied.
CascadePatch(c, p) ==
    /\ calls[c].op = "updateUser" /\ p \in calls[c].pending
    /\ IF HasDoc(podcasts, p)
       THEN /\ podcasts' = DbPatchPodcast(podcasts, p, calls[c].imageUrl)
            /\ calls' = [calls EXCEPT ![c] = PatchSettled(calls[c], p, Ok)]
       ELSE /\ podcasts' = podcasts
            /\ calls' = [calls EXCEPT ![c] = PatchSettled(calls[c], p, MissingDocument)]
    /\ UNCHANGED <<users, nextId, ranking>>
    /\ UNCHANGED <<started, audioVars, debounceVars, formatVars>>

\* The tables after a patch of the cascade of invocation r was rejected:
\* the handler has no catch and no compensation, so they are as before.
UsersAfterRejectRestored(tbl, r) ==
    DbPatchUser(tbl, r.user[1]._id, r.user[1])
UsersAfterReject(tbl, r) == tbl
PodcastsAfterReject(tbl, r) == tbl

\* updateUser, lines 300-306: the store rejects one patch of the cascade.
CascadeReject(c, p) ==
    /\ calls[c].op = "updateUser" /\ p \in calls[c].pending
    /\ users' = UsersAfterReject(users, calls[c])
    /\ podcasts' = PodcastsAfterReject(podcasts, calls[c])
    /\ calls' = [calls EXCEPT ![c] = PatchSettled(calls[c], p, StoreError)]
    /\ UNCHANGED <<nextId, ranking>>
    /\ UNCHANGED <<started, audioVars, debounceVars, formatVars>>

\* deleteUser, lines 339-346.
DeleteUser(c, id) ==
    /\ CanStart(c)
    /\ LET rows == UsersByClerkId(users, id)
           o == LookupOutcome(rows, "delete")
           r == [IdleCall EXCEPT !.op = "deleteUser", !.clerkId = id,
                    !.pc = IF o = "delete" THEN "delete" ELSE "done",
                    !.user = IF o = "delete" THEN UniqueRow(rows) ELSE <<>>,
                    !.status = IF o = "delete" THEN Running ELSE o]
       IN calls' = Started(c, r)
    /\ started' = started + 1
    /\ UNCHANGED <<users, podcasts, nextId, ranking>>
    /\ UNCHANGED <<audioVars, debounceVars, formatVars>>

\* deleteUser, line 352; ctx.db.delete throws when the document is gone.
DeleteDoc(c) ==
    /\ calls[c].op = "deleteUser" /\ calls[c].pc = "delete"
    /\ IF HasDoc(users, calls[c].user[1]._id)
       THEN /\ users' = DbDelete(users, calls[c].user[1]._id)
            /\ calls' = [calls EXCEPT ![c].pc = "done", ![c].status = Ok]
       ELSE /\ users' = users
            /\ calls' = [calls EXCEPT ![c].pc = "done", ![c].status = MissingDocument]
    /\ UNCHANGED <<podcasts, nextId, ranking>>
    /\ UNCHANGED <<started, audioVars, debounceVars, formatVars>>

\* Arguments the identity provider's webhooks pass: createUser with one of
\* two profiles, updateUser with a changed image and email.
Profiles == { [email |-> "e1", imageUrl |-> "i1", name |-> "n1"],
              [email |-> "e2", imageUrl |-> "i2", name |-> "n2"] }
CreateArgs ==
    { [clerkId |-> id, email |-> p.email, imageUrl |-> p.imageUrl, name |-> p.name] :
        id \in ClerkIds, p \in Profiles }
UpdateArgs ==
    { [clerkId |-> id, email |-> "e3", imageUrl |-> "i3"] : id \in ClerkIds }

NextStore ==
    \/ \E c \in Slots, a \in CreateArgs : CreateUser(c, a)
    \/ \E c \in Slots : CreateInsert(c)
    \/ \E c \in Slots, a \in UpdateArgs : UpdateUser(c, a)
    \/ \E c \in Slots : UpdatePatchUser(c)
    \/ \E c \in Slots : \E p \in calls[c].pending : CascadePatch(c, p)
    \/ \E c \in Slots : \E p \in calls[c].pending : CascadeReject(c, p)
    \/ \E c \in Slots, id \in ClerkIds : DeleteUser(c, id)
    \/ \E c \in Slots : DeleteDoc(c)

SpecStore == InitStore /\ [][NextStore]_vars

(***************************************************************************)
(* Properties of the user gateway                                          *)
(***************************************************************************)
\* This step invokes a handler, in slot c.
Invoked(c) == CanStart(c) /\ started' = started + 1
\* This step settles the invocation in slot c with outcome o.
Settles(c, o) == calls[c].status = Running /\ calls'[c].status = o
\* The documents of table tbl other than those with clerkId id.
OtherUsers(tbl, id) == SelectSeq(tbl, LAMBDA d : d.clerkId # id)
OwnPodcasts(c) == PodcastsByAuthor(podcasts, calls[c].clerkId)

\* C2: in every state reachable by Create, Update and Delete invocations,
\* overlapping ones included, no two user documents have the same clerkId.
C2_UniqueClerkId ==
    \A i, j \in 1..Len(users) : users[i].clerkId = users[j].clerkId => i = j

\* C3: createUser invoked on a store that holds a user document for its
\* clerkId fails with 'User already exists' and leaves both tables as they are.
C3_CreateOnExistingFails ==
    [][\A c \in Slots :
         ( /\ Invoked(c)
           /\ calls'[c].op = "createUser"
           /\ UsersByClerkId(users, calls'[c].clerkId) # <<>> )
         => /\ calls'[c].status = AlreadyExists
            /\ calls'[c].pc = "done"
            /\ users' = users /\ podcasts' = podcasts]_vars

\* The fields of a user document that createUser's arguments set.
ProfileOf(d) ==
    [clerkId |-> d.clerkId, email |-> d.email, imageUrl |-> d.imageUrl, name |-> d.name]

\* C4: when createUser, invoked on a store with no document for its clerkId
\* and overlapped by no other invocation, completes its insert, it has
\* succeeded and getUserById on the resulting store returns a document whose
\* clerkId, email, imageUrl and name are the arguments of the call.
C4_CreateThenFetch ==
    [][\A c \in Slots :
         ( /\ calls[c].op = "createUser" /\ calls[c].pc = "insert"
           /\ calls'[c].pc = "done"
           /\ calls'[c].alone )
         => /\ calls'[c].status = Ok
            /\ LET f == getUserById(users', calls[c].clerkId)
               IN /\ f.status = Ok
                  /\ ProfileOf(f.user[1]) = ProfileOf(calls[c])]_vars

\* C4 witness: a createUser invocation that ran alone has succeeded and
\* getUserById returns its arguments.
C4_Witness ==
    \E c \in Slots :
        /\ calls[c].op = "createUser" /\ calls[c].status = Ok /\ calls[c].alone
        /\ getUserById(users, calls[c].clerkId).status = Ok
        /\ ProfileOf(getUserById(users, calls[c].clerkId).user[1]) = ProfileOf(calls[c])
        /\ calls[c].name = "n2"

\* The state updateUser(X, imageUrl, email) of invocation record r is to
\* leave behind in tables u and p.
UpdateApplied(u, p, r) ==
    /\ UsersByClerkId(u, r.clerkId) # <<>>
    /\ \A i \in 1..Len(u) :
          u[i].clerkId = r.clerkId => u[i].imageUrl = r.imageUrl /\ u[i].email = r.email
    /\ \A i \in 1..Len(p) :
          p[i].authorId = r.clerkId => p[i].authorImageUrl = r.imageUrl

\* C5: when updateUser, overlapped by no other invocation, settles without
\* error, the user document of its clerkId has the imageUrl and email of the
\* call and every podcast of that author has authorImageUrl = imageUrl.
C5_UpdateCascades ==
    [][\A c \in Slots :
         ( /\ calls[c].op = "updateUser"
           /\ Settles(c, Ok)
           /\ calls'[c].alone )
         => UpdateApplied(users', podcasts', calls[c])]_vars

\* C5 witness: an updateUser invocation for an author of at least two
\* podcasts has settled without error and its cascade reached all of them.
C5_Witness ==
    \E c \in Slots :
        /\ calls[c].op = "updateUser" /\ calls[c].status = Ok /\ calls[c].alone
        /\ Len(OwnPodcasts(c)) >= 2
        /\ UpdateApplied(users, podcasts, calls[c])

\* C6: updateUser and deleteUser invoked on a store with no user document
\* for their clerkId fail with 'User not found', are finished with that, and
\* leave both tables as they are.
C6_MissingUserFails ==
    [][\A c \in Slots :
         ( /\ Invoked(c)
           /\ calls'[c].op \in {"updateUser", "deleteUser"}
           /\ UsersByClerkId(users, calls'[c].clerkId) = <<>> )
         => /\ calls'[c].status = NotFound
            /\ calls'[c].pc = "done" /\ calls'[c].pending = {}
            /\ users' = users /\ podcasts' = podcasts]_vars

\* C6 witness: an updateUser invocation for an author of podcasts has failed
\* with 'User not found' while a user document of another clerkId exists.
C6_Witness ==
    \E c \in Slots :
        /\ calls[c].op = "updateUser" /\ calls[c].status = NotFound
        /\ OwnPodcasts(c) # <<>>
        /\ users # <<>>

\* C7: deleteUser invoked on a store that holds a user document for its
\* clerkId, and overlapped by no other invocation, goes on to remove that
\* document: after its delete no document has that clerkId, every other user
\* document is unchanged and the podcasts table is unchanged.
C7_DeleteRemovesOnlyUser ==
    [][\A c \in Slots :
         /\ ( /\ Invoked(c)
              /\ calls'[c].op = "deleteUser"
              /\ UsersByClerkId(users, calls'[c].clerkId) # <<>> )
            => /\ calls'[c].pc = "delete"
               /\ users' = users /\ podcasts' = podcasts
         /\ ( /\ calls[c].op = "deleteUser" /\ calls[c].pc = "delete"
              /\ calls'[c].pc = "done"
              /\ calls'[c].alone )
            => /\ calls'[c].status = Ok
               /\ UsersByClerkId(users', calls[c].clerkId) = <<>>
               /\ OtherUsers(users', calls[c].clerkId) = OtherUsers(users, calls[c].clerkId)
               /\ Len(users') = Len(users) - 1
               /\ podcasts' = podcasts]_vars

\* C8: when a patch of updateUser's cascade is rejected and the invocation
\* settles with that error, the step changes neither table: the user patch
\* and the podcast patches already applied stay applied.
C8_NoRollback ==
    [][\A c \in Slots :
         (calls[c].op = "updateUser" /\ Settles(c, StoreError))
         => users' = users /\ podcasts' = podcasts]_vars

\* C8 witness: an updateUser invocation has ended with an error, the user
\* document has the new imageUrl, one podcast of the author has it too and
\* another podcast of the author still has its old authorImageUrl.
C8_Witness ==
    \E c \in Slots :
        /\ calls[c].op = "updateUser" /\ calls[c].status = StoreError
        /\ calls[c].pending = {} /\ calls[c].alone
        /\ \A i \in 1..Len(users) :
              users[i].clerkId = calls[c].clerkId => users[i].imageUrl = calls[c].imageUrl
        /\ UsersByClerkId(users, calls[c].clerkId) # <<>>
        /\ calls[c].user[1].imageUrl # calls[c].imageUrl
        /\ \E i, j \in 1..Len(podcasts) :
              /\ podcasts[i].authorId = calls[c].clerkId
              /\ podcasts[j].authorId = calls[c].clerkId
              /\ podcasts[i].authorImageUrl = calls[c].imageUrl
              /\ podcasts[j].authorImageUrl # calls[c].imageUrl

\* This step is one of the updateUser invocation in slot c: its start, its
\* user patch, or the settling of one patch of its cascade.
UpdateStep(c) ==
    /\ calls'[c].op = "updateUser"
    /\ \/ Invoked(c)
       \/ /\ calls[c].op = "updateUser"
          /\ calls'[c].pc # calls[c].pc \/ calls'[c].pending # calls[c].pending

\* C15: no step of updateUser(X, imageUrl, email) adds or removes a user or a
\* podcast, changes the _id, clerkId or name of a user, changes a user
\* document of another clerkId, changes a podcast of another author, or
\* changes a field other than authorImageUrl of a podcast of X; so a
\* successful Update, being made of such steps, leaves all of that as it was.
C15_UpdateFrame ==
    [][\A c \in Slots :
         UpdateStep(c) =>
            /\ Len(users') = Len(users)
            /\ \A i \in 1..Len(users) :
                  /\ users'[i]._id = users[i]._id
                  /\ users'[i].clerkId = users[i].clerkId
                  /\ users'[i].name = users[i].name
                  /\ users[i].clerkId # calls'[c].clerkId => users'[i] = users[i]
            /\ Len(podcasts') = Len(podcasts)
            /\ \A i \in 1..Len(podcasts) :
                  /\ [podcasts'[i] EXCEPT !.authorImageUrl = podcasts[i].authorImageUrl]
                        = podcasts[i]
                  /\ podcasts[i].authorId # calls'[c].clerkId => podcasts'[i] = podcasts[i]]_vars

\* C15 witness: an updateUser invocation has succeeded and reached the user
\* and a podcast of its clerkId, while the user keeps the name it was created
\* with and another user's document and podcast are as they were created.
C15_Witness ==
    \E c \in Slots :
        /\ calls[c].op = "updateUser" /\ calls[c].status = Ok /\ calls[c].alone
        /\ UpdateApplied(users, podcasts, calls[c])
        /\ OwnPodcasts(c) # <<>>
        /\ \E i \in 1..Len(users) :
              users[i].clerkId = calls[c].clerkId /\ users[i].name = "n2"
        /\ \E i \in 1..Len(users) :
              /\ users[i].clerkId # calls[c].clerkId
              /\ users[i].imageUrl # calls[c].imageUrl
        /\ \E i \in 1..Len(podcasts) :
              /\ podcasts[i].authorId # calls[c].clerkId
              /\ podcasts[i].authorImageUrl = "i0"

(***************************************************************************)
(* Ranking aggregation (getTopUserByPodcastCount)                          *)
(***************************************************************************)
\* Array.prototype.sort((a, b) => key(b) - key(a)): a stable sort into
\* non-increasing key order.  keys[i] is the key of seq[i]; the element at
\* index i moves behind every element with a larger key and every earlier
\* element with an equal key.
SortDescendingPosition(keys, i) ==
    1 + Cardinality({ j \in 1..Len(keys) : keys[j] > keys[i] })
      + Cardinality({ j \in 1..(i - 1) : keys[j] = keys[i] })
SortAscending(seq, keys) ==
    [k \in 1..Len(seq) |->
        seq[CHOOSE i \in 1..Len(seq) :
              k = 1 + Cardinality({ j \in 1..Len(keys) : keys[j] < keys[i] })
                    + Cardinality({ j \in 1..(i - 1) : keys[j] = keys[i] })]]
SortDescending(seq, keys) ==
    [k \in 1..Len(seq) |->
        seq[CHOOSE i \in 1..Len(seq) : SortDescendingPosition(keys, i) = k]]

\* Lines 143-164: one user's entry.
UserEntry(u, ptbl) ==
    LET own == PodcastsByAuthor(ptbl, u.clerkId)
        sortedPodcasts == SortDescending(own, [i \in 1..Len(own) |-> own[i].views])
    IN [_id |-> u._id, clerkId |-> u.clerkId, email |-> u.email,
        imageUrl |-> u.imageUrl, name |-> u.name,
        totalPodcasts |-> Len(own),
        podcast |-> [i \in 1..Len(sortedPodcasts) |->
                        [podcastTitle |-> sortedPodcasts[i].podcastTitle,
                         podcastId |-> sortedPodcasts[i]._id]]]

\* Lines 137-170: the handler's result on a state of the two tables.
getTopUserByPodcastCount(utbl, ptbl) ==
    LET userData == [i \in 1..Len(utbl) |-> UserEntry(utbl[i], ptbl)]
    IN SortDescending(userData, [i \in 1..Len(userData) |-> userData[i].totalPodcasts])

RankClerkIds == ClerkIds \cup {"u3"}
ViewCounts == {1, 2}
RankUsers(ids) ==
    [i \in 1..Len(ids) |->
        [_id |-> i, clerkId |-> ids[i], email |-> "e1", imageUrl |-> "i1", name |-> "n1"]]

\* The tables as other invocations left them: up to MaxRankUsers users, whose
\* clerkIds may repeat, and podcasts of any author and view count.
InitRank ==
    /\ \E n \in 0..MaxRankUsers : \E ids \in [1..n -> RankClerkIds] : users = RankUsers(ids)
    /\ \E authors \in [1..NumRankPodcasts -> RankClerkIds] :
       \E views \in [1..NumRankPodcasts -> ViewCounts] :
          podcasts = PodcastDocs(authors, views)
    /\ calls = <<>> /\ nextId = 1 /\ started = 0
    /\ ranking = <<>>
    /\ AudioIdle
    /\ DebounceIdle
    /\ FormatIdle

\* A client runs the query.
GetTopUserByPodcastCount ==
    /\ ranking = <<>>
    /\ ranking' = <<getTopUserByPodcastCount(users, podcasts)>>
    /\ UNCHANGED <<users, podcasts, calls, nextId, started>>
    /\ UNCHANGED <<audioVars, debounceVars, formatVars>>

NextRank == GetTopUserByPodcastCount

SpecRank == InitRank /\ [][NextRank]_vars

ViewsOf(ptbl, id) == (CHOOSE d \in { ptbl[i] : i \in 1..Len(ptbl) } : d._id = id).views

\* C9: the result has exactly one entry per user document; an entry's
\* totalPodcasts is the number of podcasts whose authorId is its clerkId; its
\* podcast list holds exactly those podcasts, in non-increasing order of
\* views; the entries are in non-increasing order of totalPodcasts.
C9_RankingAggregation ==
    Len(ranking) = 1 =>
        LET r == ranking[1]
        IN /\ Len(r) = Len(users)
           /\ \A i \in 1..Len(users) :
                 Cardinality({ k \in 1..Len(r) : r[k]._id = users[i]._id }) = 1
           /\ \A k \in 1..Len(r) :
                 LET own == PodcastsByAuthor(podcasts, r[k].clerkId)
                 IN /\ r[k].totalPodcasts = Len(own)
                    /\ Len(r[k].podcast) = Len(own)
                    /\ \A i \in 1..Len(own) :
                          Cardinality({ m \in 1..Len(r[k].podcast) :
                                          r[k].podcast[m].podcastId = own[i]._id }) = 1
                    /\ \A m \in 1..(Len(r[k].podcast) - 1) :
                          ViewsOf(podcasts, r[k].podcast[m].podcastId)
                             >= ViewsOf(podcasts, r[k].podcast[m + 1].podcastId)
           /\ \A k \in 1..(Len(r) - 1) : r[k].totalPodcasts >= r[k + 1].totalPodcasts

\* C9 witness: a user with three podcasts of differing views, created after a
\* user with one podcast and a user with none, is ranked first.
C9_Witness ==
    /\ Len(ranking) = 1
    /\ Len(ranking[1]) = 3
    /\ ranking[1][1].totalPodcasts = 3 /\ ranking[1][1]._id = 3
    /\ ranking[1][2].totalPodcasts = 1
    /\ ranking[1][3].totalPodcasts = 0
    /\ \E m \in 1..2 :
          ViewsOf(podcasts, ranking[1][1].podcast[m].podcastId)
             > ViewsOf(podcasts, ranking[1][1].podcast[m + 1].podcastId)
    /\ podcasts[1].views < podcasts[4].views

(***************************************************************************)
(* useDebounce                                                             *)
(***************************************************************************)
Values == {"v0", "v1", "v2", "v3"}

\* A pending timer: its handle, the value its callback closed over, and the
\* ticks left until it is due.
\* setTimeout(() => setDebouncedValue(value), delay)
FreshHandle(ts) ==
    CHOOSE h \in 1..(Cardinality(ts) + 1) : \A t \in ts : t.id # h
SetTimeoutNoDelay(ts, v) ==
    ts \cup {[id |-> FreshHandle(ts), val |-> v, remaining |-> 0]}
SetTimeout(ts, v) ==
    ts \cup {[id |-> FreshHandle(ts), val |-> v, remaining |-> DelayTicks]}
\* clearTimeout(timeout)
ClearTimeoutNoop(ts, h) == ts
ClearTimeout(ts, h) == { t \in ts : t.id # h }

\* Mount with input v: useState(value), then the effect runs once.
InitDebounce ==
    /\ value \in Values
    /\ debouncedValue = value
    /\ timeout = FreshHandle({})
    /\ timers = SetTimeout({}, value)
    /\ mounted = TRUE
    /\ rapid = <<>>
    /\ unchangedFor = 0
    /\ AudioIdle
    /\ StoreIdle
    /\ FormatIdle

\* The timer of the latest effect run is pending and its delay has not elapsed.
WithinDelay == \E t \in timers : t.id = timeout /\ t.remaining > 0

\* Re-render with a new input v: the cleanup of the previous effect run
\* clears its timer, then the effect schedules a new one.
SetValue(v) ==
    /\ mounted
    /\ v # value
    /\ value' = v
    /\ LET cleared == ClearTimeout(timers, timeout)
       IN /\ timeout' = FreshHandle(cleared)
          /\ timers' = SetTimeout(cleared, v)
    /\ rapid' = IF WithinDelay THEN <<[v1 |-> value, v2 |-> v]>> ELSE <<>>
    /\ unchangedFor' = 0
    /\ UNCHANGED <<debouncedValue, mounted>>
    /\ UNCHANGED <<audioVars, storeVars, formatVars>>

\* Time passes by one tick.
Tick ==
    /\ \E t \in timers : t.remaining > 0
    /\ timers' = { [t EXCEPT !.remaining = IF @ > 0 THEN @ - 1 ELSE 0] : t \in timers }
    /\ unchangedFor' = IF unchangedFor < DelayTicks THEN unchangedFor + 1 ELSE unchangedFor
    /\ UNCHANGED <<value, debouncedValue, timeout, mounted, rapid>>
    /\ UNCHANGED <<audioVars, storeVars, formatVars>>

\* A due timer fires: setDebouncedValue(value) with the value it closed over.
Fire(t) ==
    /\ t \in timers
    /\ t.remaining = 0
    /\ debouncedValue' = t.val
    /\ timers' = timers \ {t}
    /\ UNCHANGED <<value, timeout, mounted, rapid, unchangedFor>>
    /\ UNCHANGED <<audioVars, storeVars, formatVars>>

\* Unmount: the cleanup of the last effect run clears its timer.
Unmount ==
    /\ mounted
    /\ mounted' = FALSE
    /\ timers' = ClearTimeout(timers, timeout)
    /\ UNCHANGED <<value, debouncedValue, timeout, rapid, unchangedFor>>
    /\ UNCHANGED <<audioVars, storeVars, formatVars>>

NextDebounce ==
    \/ \E v \in Values : SetValue(v)
    \/ Tick
    \/ \E t \in timers : Fire(t)
    \/ Unmount

SpecDebounce == InitDebounce /\ [][NextDebounce]_vars

C11_TimerDiscipline ==
    /\ [](Cardinality(timers) <= 1 /\ (~mounted => timers = {}))
    /\ [][debouncedValue' # debouncedValue
            => /\ mounted /\ mounted'
               /\ debouncedValue' = value
               /\ unchangedFor = DelayTicks]_vars

\* C11 witness: the input change to v3 cancelled the timer of v0 within
\* its delay; v3 then stayed for the full delay, its timer has fired, the
\* debounced output is v3 and no timer is left.
C11_Witness ==
    /\ mounted
    /\ rapid # <<>>
    /\ rapid[1].v1 = "v0" /\ rapid[1].v2 = "v3"
    /\ debouncedValue = "v3" /\ value = "v3"
    /\ unchangedFor = DelayTicks
    /\ timers = {}

(***************************************************************************)
(* formatTime                                                              *)
(***************************************************************************)
\* `${n}` for a non-negative integer n: its decimal digits.
DigitChars == <<"0", "1", "2", "3", "4", "5", "6", "7", "8", "9">>
RECURSIVE NumberToString(_)
NumberToString(n) ==
    IF n < 10 THEN <<DigitChars[n + 1]>>
    ELSE NumberToString(n \div 10) \o <<DigitChars[(n % 10) + 1]>>

formatTimeNoPadding(s) ==
    NumberToString(s \div 60) \o <<":">> \o NumberToString(s % 60)
formatTime(s) ==
    LET minutes == s \div 60
        remainingSeconds == s % 60
        formattedSeconds == IF remainingSeconds < 10
                            THEN <<"0">> \o NumberToString(remainingSeconds)
                            ELSE NumberToString(remainingSeconds)
    IN NumberToString(minutes) \o <<":">> \o formattedSeconds

InitFormat ==
    /\ seconds \in 0..MaxSeconds
    /\ formatted = <<>>
    /\ AudioIdle
    /\ StoreIdle
    /\ DebounceIdle

\* A caller formats the duration.
FormatTime ==
    /\ formatted = <<>>
    /\ formatted' = formatTime(seconds)
    /\ UNCHANGED seconds
    /\ UNCHANGED <<audioVars, storeVars, debounceVars>>

NextFormat == FormatTime

SpecFormat == InitFormat /\ [][NextFormat]_vars

\* Reading a text of decimal digits back as a number.
IsDigit(c) == \E d \in 1..10 : DigitChars[d] = c
DigitValue(c) == (CHOOSE d \in 1..10 : DigitChars[d] = c) - 1
RECURSIVE ParseDecimal(_)
ParseDecimal(t) ==
    IF t = <<>> THEN 0
    ELSE 10 * ParseDecimal(SubSeq(t, 1, Len(t) - 1)) + DigitValue(t[Len(t)])

\* C13: formatTime(s) for an integer s >= 0 is the decimal text of
\* floor(s / 60) without leading zeros, then ':', then s mod 60 in exactly
\* two digits; formatTime(65) = '1:05', formatTime(5) = '0:05' and
\* formatTime(600) = '10:00'.
C13_FormatTime ==
    formatted # <<>> =>
        LET n == Len(formatted)
            mins == SubSeq(formatted, 1, n - 3)
            secs == SubSeq(formatted, n - 1, n)
        IN /\ n >= 4
           /\ formatted[n - 2] = ":"
           /\ \A i \in 1..Len(mins) : IsDigit(mins[i])
           /\ IsDigit(secs[1]) /\ IsDigit(secs[2])
           /\ Len(mins) > 1 => mins[1] # "0"
           /\ ParseDecimal(mins) = seconds \div 60
           /\ ParseDecimal(secs) = seconds % 60
           /\ seconds = 65 => formatted = <<"1", ":", "0", "5">>
           /\ seconds = 5 => formatted = <<"0", ":", "0", "5">>
           /\ seconds = 600 => formatted = <<"1", "0", ":", "0", "0">>

\* C13 witness: 65 seconds were formatted as 1:05.
C13_Witness ==
    /\ seconds = 65
    /\ formatted = <<"1", ":", "0", "5">>

====
